---- MODULE Spec2Model ----
(***************************************************************************)
(* A model of fileread/last_lines.py: the generator last_lines that yields *)
(* the lines of a file from the last one to the first, reading the file    *)
(* backwards in chunks of buf_size bytes.                                  *)
(*                                                                         *)
(* A file is a sequence of byte values.  A generator object is modelled by *)
(* its frame (the local variables of last_lines and the point where it is  *)
(* suspended); one action is one operation of the caller on the generator: *)
(* calling last_lines, next() and close().                                 *)
(***************************************************************************)
EXTENDS Integers, Sequences, FiniteSets, TLC

(* ------------------------------ bounds -------------------------------- *)
\* Longest file content, in bytes.
MaxFileLen == 5
\* Largest buf_size passed by the caller.
MaxBufSize == 5
\* Within one next(), the last chunk read that the operating system may fail.
MaxFaultRead == 2

(* ------------------------------ bytes --------------------------------- *)
\* b'\n', the delimiter.
NL == 10
\* '\r', ordinary content for last_lines.
CR == 13
\* The two bytes of the UTF-8 encoding of U+00E9: a lead byte and a
\* continuation byte.  Alone, each of them is invalid UTF-8.
LeadC3 == 195
ContA9 == 169

Bytes == {NL, CR, LeadC3, ContA9}

Min(a, b) == IF a < b THEN a ELSE b
Max(a, b) == IF a > b THEN a ELSE b

\* All byte sequences of length at most n.
RECURSIVE SeqsUpTo(_)
SeqsUpTo(n) ==
  IF n = 0 THEN {<<>>}
  ELSE LET shorter == SeqsUpTo(n - 1)
       IN shorter \cup {Append(s, b) : s \in {t \in shorter : Len(t) = n - 1}, b \in Bytes}

(* --------------------------- encoding names --------------------------- *)
\* An encoding name is a sequence of characters.
Utf8Hyphen   == <<"u", "t", "f", "-", "8">>
Utf8Upper    == <<"U", "T", "F", "-", "8">>
Utf8Plain    == <<"u", "t", "f", "8">>
Utf8Under    == <<"u", "t", "f", "_", "8">>
Utf16Hyphen  == <<"u", "t", "f", "-", "1", "6">>
Latin1Hyphen == <<"l", "a", "t", "i", "n", "-", "1">>
Ascii        == <<"a", "s", "c", "i", "i">>

EncodingNames ==
  {Utf8Hyphen, Utf8Upper, Utf8Plain, Utf8Under, Utf16Hyphen, Latin1Hyphen, Ascii}

\* str.lower() on one character (the upper-case letters of the names above).
LowerChar(c) ==
  CASE c = "U" -> "u"
    [] c = "T" -> "t"
    [] c = "F" -> "f"
    [] OTHER -> c

\* str.lower()
Lower(name) == [i \in 1..Len(name) |-> LowerChar(name[i])]

\* str.replace('-', '')
RemoveHyphens(name) == SelectSeq(name, LAMBDA c : c # "-")

\* The codec Python's lookup gives for a name: the name is lower-cased,
\* hyphens become underscores, and the aliases of the codec are accepted.
HyphenToUnderscore(name) ==
  [i \in 1..Len(name) |-> IF name[i] = "-" THEN "_" ELSE name[i]]

CodecOf(name) ==
  LET n == HyphenToUnderscore(Lower(name))
  IN IF n \in {<<"u", "t", "f", "_", "8">>, <<"u", "t", "f", "8">>, <<"u", "t", "f">>}
     THEN "utf_8"
     ELSE IF n = <<"u", "t", "f", "_", "1", "6">> THEN "utf_16"
     ELSE IF n = <<"l", "a", "t", "i", "n", "_", "1">> THEN "latin_1"
     ELSE "ascii"

\* min_buf_size of last_lines.
MinBufSize(enc) ==
  IF RemoveHyphens(Lower(enc)) \in {<<"u", "t", "f", "8">>, <<"u", "t", "f">>}
  THEN 4 ELSE 1

(* ------------------------------ decoding ------------------------------ *)
\* bytes.decode: [ok, text], text a sequence of code points.  UTF-8 is
\* decoded strictly; the byte alphabet holds one- and two-byte forms only.
RECURSIVE DecodeUtf8(_)
DecodeUtf8(b) ==
  IF b = <<>> THEN [ok |-> TRUE, text |-> <<>>]
  ELSE IF b[1] < 128
  THEN LET rest == DecodeUtf8(Tail(b))
       IN [ok |-> rest.ok, text |-> IF rest.ok THEN <<b[1]>> \o rest.text ELSE <<>>]
  ELSE IF b[1] >= 194 /\ b[1] <= 223 /\ Len(b) >= 2 /\ b[2] >= 128 /\ b[2] <= 191
  THEN LET rest == DecodeUtf8(Tail(Tail(b)))
           cp == (b[1] - 192) * 64 + (b[2] - 128)
       IN [ok |-> rest.ok, text |-> IF rest.ok THEN <<cp>> \o rest.text ELSE <<>>]
  ELSE [ok |-> FALSE, text |-> <<>>]

\* latin-1 maps every byte to the code point of the same value.
DecodeLatin1(b) == [ok |-> TRUE, text |-> b]

\* ascii accepts the bytes below 128.
DecodeAscii(b) ==
  IF \A i \in 1..Len(b) : b[i] < 128
  THEN [ok |-> TRUE, text |-> b] ELSE [ok |-> FALSE, text |-> <<>>]

Decode(b, enc) ==
  CASE CodecOf(enc) = "utf_8" -> DecodeUtf8(b)
    [] CodecOf(enc) = "latin_1" -> DecodeLatin1(b)
    [] OTHER -> DecodeAscii(b)

(* ------------------------------ splitting ----------------------------- *)
\* bytes.endswith(b'\n')
EndsWithNL(b) == Len(b) > 0 /\ b[Len(b)] = NL

\* bytes.split(b'\n'): the fragments between delimiters, at least one.
RECURSIVE SplitNL(_)
SplitNL(b) ==
  IF \A i \in 1..Len(b) : b[i] # NL THEN <<b>>
  ELSE LET i == CHOOSE j \in 1..Len(b) : b[j] = NL /\ \A k \in 1..(j - 1) : b[k] # NL
       IN <<SubSeq(b, 1, i - 1)>> \o SplitNL(SubSeq(b, i + 1, Len(b)))

(* ------------------------------- state -------------------------------- *)
VARIABLES
  file,            \* the content of the file at filename (bytes)
  path,            \* "exists", "missing" or "denied": what open(filename) meets
  buf_size,        \* argument buf_size
  encoding,        \* argument encoding
  pc,              \* where the generator stands: "uncalled", "created" (not yet
                   \* started), "yield_loop" (suspended at line 74),
                   \* "yield_final" (suspended at line 85), "done"
  fh,              \* the file handle: "none", "open", "closed"
  file_size,       \* local file_size
  hasSegment,      \* segment is not None
  segment,         \* local segment (bytes)
  offset,          \* local offset
  remaining_size,  \* local remaining_size
  lines,           \* local lines, after lines[-1] += segment
  idx,             \* position in lines of the line of the for loop
  emitted,         \* the items yielded so far, in order
  error,           \* the exception that left the generator, or "none"
  cause,           \* the __cause__ of that exception, or "none"
  osFault,         \* the error the operating system raised, or "none"
  failedAt,        \* where a decode failed: "none", "loop" (line 74), "final" (line 85)
  reads,           \* the chunks read so far: <<start offset, length>>
  assembled,       \* per chunk read, after line 69: the segment carried and
                   \* the bytes held in lines
  result,          \* what the last next() gave the caller: "none" (no next()
                   \* yet), "item", "error" or "StopIteration"
  closedByCaller,  \* close() ran on the generator before it finished (called
                   \* by the caller, or by the finalizer of the generator)
  abandoned,       \* the caller has stopped calling next()
  other,           \* the frame of a second generator object
  cls,             \* the class that owns the computed properties: their
                   \* declared dependencies and the accessors they have
  attrs,           \* per object, the value of each plain attribute
  cache,           \* per object and property, the attribute __cached_<name>
  calls,           \* per object and property, the getter calls since the last
                   \* assignment to a declared dependency, setter or deleter call
  returned,        \* the same count for the getter calls that returned
  made,            \* the objects of the class that have been made
  dropped,         \* the cached values that the last operation deleted:
                   \* pairs <<object, property>>
  lastOp,          \* how the last operation on an object ended: "none",
                   \* "computed" (a read that called the getter, which
                   \* returned), "cached" (a read served from the cache),
                   \* "raised" (a read that raised AttributeError), "assigned",
                   \* "deleted", "refused" (an assignment or a deletion that
                   \* raised AttributeError)
  rows1,           \* the rows given to reconcile_accounts as transactions1
  rows2,           \* the rows given as transactions2
  transactions1,   \* self.transactions1: the parsed rows with their status
  transactions2,   \* self.transactions2
  rpc,             \* where reconcile() stands: "idle", "matching" (the loop
                   \* of line 102), "joining" (line 116), "returned"
  nxt,             \* the position in transactions1 of txn1 in the loop of
                   \* line 102
  out1,            \* the first list returned
  out2,            \* the second list returned
  partner          \* per position of transactions1, the position in
                   \* transactions2 of the match find_match returned (0: None)

genVars == <<file, path, buf_size, encoding, pc, fh, file_size, hasSegment, segment,
             offset, remaining_size, lines, idx, emitted, error, cause, osFault,
             failedAt, reads, assembled, result, closedByCaller, abandoned>>

cpVars == <<cls, attrs, cache, calls, returned, made, dropped, lastOp>>

recVars == <<rows1, rows2, transactions1, transactions2, rpc, nxt, out1, out2, partner>>

vars == <<genVars, other, cpVars, recVars>>

inputs == <<file, path, buf_size, encoding>>

(* ------------------ computed properties: the state -------------------- *)
MaxValue == 1
MaxCalls == 2

\* hasattr(obj, name) is false.
Absent == -1

\* The plain attributes and the computed properties of the class, and the
\* objects of the class.
Attrs == {"a", "b"}
Props == {"p", "q"}
Names == Attrs \cup Props
Objs == {"o1", "o2"}
Values == 0..MaxValue

\* The plain attributes of an object that has not been made.
NoAttrs == [x \in Attrs |-> Absent]

\* No class with computed properties is in use.
CPIdle ==
  /\ cls = [props |-> {}, deps |-> [x \in Props |-> {}], fset |-> {}, fdel |-> {}]
  /\ made = {}
  /\ attrs = [o \in Objs |-> NoAttrs]
  /\ cache = [o \in Objs |-> [x \in Props |-> Absent]]
  /\ calls = [o \in Objs |-> [x \in Props |-> 0]]
  /\ returned = [o \in Objs |-> [x \in Props |-> 0]]
  /\ dropped = {}
  /\ lastOp = "none"

\* The frame of a generator that has not been called, with its arguments.
NewFrame(content, p, size, enc) ==
  [file |-> content, path |-> p, buf_size |-> size, encoding |-> enc,
   pc |-> "uncalled", fh |-> "none", file_size |-> 0, hasSegment |-> FALSE,
   segment |-> <<>>, offset |-> 0, remaining_size |-> 0, lines |-> <<>>, idx |-> 0,
   emitted |-> <<>>, error |-> "none", cause |-> "none", osFault |-> "none",
   failedAt |-> "none", reads |-> <<>>, assembled |-> <<>>,
   result |-> "none",
   closedByCaller |-> FALSE, abandoned |-> FALSE, faultIn |-> 0]

\* The frame of the generator as one record.  faultIn is the number of the
\* chunk read, counted within one next(), at which the operating system
\* fails (0: no read fails).
Frame ==
  [file |-> file, path |-> path, buf_size |-> buf_size, encoding |-> encoding,
   pc |-> pc, fh |-> fh, file_size |-> file_size, hasSegment |-> hasSegment,
   segment |-> segment, offset |-> offset, remaining_size |-> remaining_size,
   lines |-> lines, idx |-> idx, emitted |-> emitted, error |-> error,
   cause |-> cause, osFault |-> osFault, failedAt |-> failedAt, reads |-> reads,
   assembled |-> assembled,
   result |-> result, closedByCaller |-> closedByCaller, abandoned |-> abandoned,
   faultIn |-> 0]

(* ---------------------- reconciliation: the state --------------------- *)
\* No reconciliation is in use.
RecIdle ==
  /\ rows1 = <<>> /\ rows2 = <<>>
  /\ transactions1 = <<>> /\ transactions2 = <<>>
  /\ rpc = "idle" /\ nxt = 0
  /\ out1 = <<>> /\ out2 = <<>>
  /\ partner = <<>>

(* --------------------------- the generator ---------------------------- *)
\* An exception leaves the generator: the with block closes the handle.
Raise_yieldsPartialLine(f, exc) ==
  [f EXCEPT !.pc = "done", !.error = exc,
            !.fh = IF f.fh = "open" THEN "closed" ELSE f.fh,
            !.emitted = IF f.failedAt # "none" THEN Append(f.emitted, <<NL>>)
                        ELSE f.emitted]

Raise_handleLeftOpen(f, exc) == [f EXCEPT !.pc = "done", !.error = exc]

Raise(f, exc) ==
  [f EXCEPT !.pc = "done", !.error = exc,
            !.fh = IF f.fh = "open" THEN "closed" ELSE f.fh]

\* raise ... from e
RaiseFrom(f, exc, e) == [Raise(f, exc) EXCEPT !.cause = e]

\* Lines 91-94: an OSError raised inside the try block.
HandleOSError_wrapsAll(f, e) == RaiseFrom(f, "OSError", e)

HandleOSError(f, e) ==
  IF e = "FileNotFoundError" THEN Raise(f, e) ELSE RaiseFrom(f, "OSError", e)

\* The operating system raises e in open, seek or read.
OSFault(f, e) == HandleOSError([f EXCEPT !.osFault = e], e)

\* Lines 57-59: the newline that ends the file is removed from the first chunk.
StripLastNewline_everyChunk(buffer, rem, size) ==
  IF EndsWithNL(buffer) THEN SubSeq(buffer, 1, Len(buffer) - 1) ELSE buffer

StripLastNewline(buffer, rem, size) ==
  IF rem = size /\ EndsWithNL(buffer)
  THEN SubSeq(buffer, 1, Len(buffer) - 1) ELSE buffer

\* Lines 64-66: the pending segment goes after the last line of the chunk.
Assemble_segmentFirst(ls, has, seg) ==
  IF has THEN [ls EXCEPT ![Len(ls)] = seg \o ls[Len(ls)]] ELSE ls

Assemble_segmentDropped(ls, has, seg) == ls

RECURSIVE Joined(_)
Joined(ls) == IF ls = <<>> THEN <<>> ELSE Head(ls) \o Joined(Tail(ls))

Assemble_keepsAll(ls, has, seg) ==
  <<Joined(ls) \o (IF has THEN seg ELSE <<>>)>>

Assemble(ls, has, seg) ==
  IF has THEN [ls EXCEPT ![Len(ls)] = ls[Len(ls)] \o seg] ELSE ls

\* The number of bytes in a list of byte strings.
RECURSIVE SumLen(_)
SumLen(ls) == IF ls = <<>> THEN 0 ELSE Len(Head(ls)) + SumLen(Tail(ls))

\* What the generator holds after line 69: lines, whose first element is
\* the new segment.
Held(ls) == [segment |-> ls[1], held |-> SumLen(ls)]

\* Lines 52-69: one chunk is read, split and joined with the pending segment.
ReadChunk_allThatRemains(f) ==
  LET chunk_size == f.remaining_size
      raw        == SubSeq(f.file, 1, chunk_size)
      buffer     == StripLastNewline(raw, f.remaining_size, f.file_size)
      ls         == Assemble(SplitNL(buffer), f.hasSegment, f.segment)
  IN [f EXCEPT !.offset = f.file_size,
               !.remaining_size = 0,
               !.lines = ls,
               !.hasSegment = TRUE,
               !.segment = ls[1],
               !.idx = Len(ls) + 1,
               !.reads = Append(f.reads, <<0, Len(raw)>>),
               !.assembled = Append(f.assembled, Held(ls))]

ReadChunk(f) ==
  LET new_offset == Min(f.file_size, f.offset + f.buf_size)
      pos        == Max(0, f.file_size - new_offset)
      chunk_size == Min(f.remaining_size, f.buf_size)
      raw        == SubSeq(f.file, pos + 1, Min(Len(f.file), pos + chunk_size))
      buffer     == StripLastNewline(raw, f.remaining_size, f.file_size)
      ls         == Assemble(SplitNL(buffer), f.hasSegment, f.segment)
  IN [f EXCEPT !.offset = new_offset,
               !.remaining_size = f.remaining_size - chunk_size,
               !.lines = ls,
               !.hasSegment = TRUE,
               !.segment = ls[1],
               !.idx = Len(ls) + 1,
               !.reads = Append(f.reads, <<pos, Len(raw)>>),
               !.assembled = Append(f.assembled, Held(ls))]

\* Lines 52-55 when seek or read fails: offset is already set.
ReadFault(f) ==
  OSFault([f EXCEPT !.offset = Min(f.file_size, f.offset + f.buf_size)], "EIO")

\* Lines 75-80: the exception for a line of the for loop that does not decode.
LoopDecodeError_alwaysBufferTooSmall(rem) == "BufferTooSmallException"

LoopDecodeError_alwaysUnicode(rem) == "UnicodeDecodeError"

LoopDecodeError(rem) ==
  IF rem > 0 THEN "BufferTooSmallException" ELSE "UnicodeDecodeError"

\* Lines 86-89: the exception for a final segment that does not decode.
FinalDecodeError_reraised == "UnicodeDecodeError"

FinalDecodeError == "BufferTooSmallException"

\* Lines 75-80 and 86-89: BufferTooSmallException is raised from the decode
\* error, the decode error itself is raised again as it is.
DecodeFailure(f, exc) ==
  IF exc = "BufferTooSmallException"
  THEN RaiseFrom(f, exc, "UnicodeDecodeError") ELSE Raise(f, exc)

\* Lines 82-89: the pending segment is the last item.
Final(f) ==
  IF f.hasSegment
  THEN LET d == Decode(f.segment, f.encoding)
       IN IF d.ok
          THEN [f EXCEPT !.pc = "yield_final",
                         !.emitted = Append(f.emitted, d.text \o <<NL>>)]
          ELSE DecodeFailure([f EXCEPT !.failedAt = "final"], FinalDecodeError)
  ELSE [f EXCEPT !.pc = "done", !.fh = "closed"]

\* Lines 51-80 from the head of the for loop: the next line of the chunk is
\* yielded; when the chunk has none left the next chunk is read, and when
\* the file has none left the final segment is handled.
RECURSIVE Advance(_)
Advance(f) ==
  IF f.idx - 1 >= 2
  THEN LET d == Decode(f.lines[f.idx - 1], f.encoding)
       IN IF d.ok
          THEN [f EXCEPT !.pc = "yield_loop", !.idx = f.idx - 1,
                         !.emitted = Append(f.emitted, d.text \o <<NL>>)]
          ELSE DecodeFailure([f EXCEPT !.failedAt = "loop", !.idx = f.idx - 1],
                             LoopDecodeError(f.remaining_size))
  ELSE IF f.remaining_size > 0
  THEN IF f.faultIn = 1
       THEN ReadFault(f)
       ELSE Advance(ReadChunk([f EXCEPT !.faultIn = Max(0, f.faultIn - 1)]))
  ELSE Final(f)

\* Lines 41-49 and 91-94: the file is opened and measured.
Open_segmentStartsEmpty(f) ==
  IF f.path = "missing" THEN OSFault(f, "FileNotFoundError")
  ELSE IF f.path = "denied" THEN OSFault(f, "PermissionError")
  ELSE Advance([f EXCEPT !.fh = "open", !.file_size = Len(f.file),
                         !.hasSegment = TRUE, !.segment = <<>>,
                         !.offset = 0, !.remaining_size = Len(f.file),
                         !.lines = <<>>, !.idx = 0])

Open(f) ==
  IF f.path = "missing" THEN OSFault(f, "FileNotFoundError")
  ELSE IF f.path = "denied" THEN OSFault(f, "PermissionError")
  ELSE LET g == [f EXCEPT !.fh = "open", !.file_size = Len(f.file)]
       IN IF g.file_size = 0
          THEN [g EXCEPT !.pc = "done", !.fh = "closed"]
          ELSE Advance([g EXCEPT !.hasSegment = FALSE, !.segment = <<>>,
                                 !.offset = 0, !.remaining_size = g.file_size,
                                 !.lines = <<>>, !.idx = 0])

\* Lines 36-45: the generator starts, on the first next().
Start_openFirst(f) ==
  LET g == Open(f)
  IN IF g.error = "none" /\ f.buf_size < MinBufSize(f.encoding)
     THEN Raise(g, "ValueError") ELSE g

Start(f) ==
  IF f.buf_size < MinBufSize(f.encoding) THEN Raise(f, "ValueError") ELSE Open(f)

\* A finished generator: next() raises StopIteration and runs nothing.
Finished_runsAgain(f) ==
  IF f.error # "none" /\ f.buf_size >= MinBufSize(f.encoding)
  THEN Open([f EXCEPT !.error = "none"]) ELSE f

Finished(f) == f

\* One next() on the generator, from where it stands.
Resume(f) ==
  LET g == CASE f.pc = "created" -> Start(f)
             [] f.pc = "yield_loop" -> Advance(f)
             [] f.pc = "yield_final" -> [f EXCEPT !.pc = "done", !.fh = "closed"]
             [] OTHER -> Finished(f)
  IN [g EXCEPT !.faultIn = 0,
               !.result = IF g.pc \in {"yield_loop", "yield_final"} THEN "item"
                          ELSE IF f.pc # "done" /\ g.error # "none" THEN "error"
                          ELSE "StopIteration"]

\* close() on the generator: GeneratorExit is raised at the yield where the
\* generator is suspended and the with block closes the handle; a generator
\* that has not started just finishes.
CloseGen(f) ==
  [f EXCEPT !.pc = "done",
            !.fh = IF f.fh = "open" THEN "closed" ELSE f.fh,
            !.closedByCaller = TRUE]

(* ------------------------------ actions ------------------------------- *)
\* The files read with content: the encodings whose decoding is modelled.
ContentEncodings == {Utf8Hyphen, Latin1Hyphen}

\* No second generator.
NoOther == NewFrame(<<>>, "missing", 0, Ascii)

SetFrame(f) ==
  /\ file' = f.file
  /\ path' = f.path
  /\ buf_size' = f.buf_size
  /\ encoding' = f.encoding
  /\ pc' = f.pc
  /\ fh' = f.fh
  /\ file_size' = f.file_size
  /\ hasSegment' = f.hasSegment
  /\ segment' = f.segment
  /\ offset' = f.offset
  /\ remaining_size' = f.remaining_size
  /\ lines' = f.lines
  /\ idx' = f.idx
  /\ emitted' = f.emitted
  /\ error' = f.error
  /\ cause' = f.cause
  /\ osFault' = f.osFault
  /\ failedAt' = f.failedAt
  /\ reads' = f.reads
  /\ assembled' = f.assembled
  /\ result' = f.result
  /\ closedByCaller' = f.closedByCaller
  /\ abandoned' = f.abandoned

\* The variables hold the frame f.
IsFrame(f) ==
  /\ file = f.file
  /\ path = f.path
  /\ buf_size = f.buf_size
  /\ encoding = f.encoding
  /\ pc = f.pc
  /\ fh = f.fh
  /\ file_size = f.file_size
  /\ hasSegment = f.hasSegment
  /\ segment = f.segment
  /\ offset = f.offset
  /\ remaining_size = f.remaining_size
  /\ lines = f.lines
  /\ idx = f.idx
  /\ emitted = f.emitted
  /\ error = f.error
  /\ cause = f.cause
  /\ osFault = f.osFault
  /\ failedAt = f.failedAt
  /\ reads = f.reads
  /\ assembled = f.assembled
  /\ result = f.result
  /\ closedByCaller = f.closedByCaller
  /\ abandoned = f.abandoned

Init ==
  /\ \/ \E content \in SeqsUpTo(MaxFileLen) \ {<<>>}, enc \in ContentEncodings,
           size \in 1..MaxBufSize :
          IsFrame(NewFrame(content, "exists", size, enc))
     \/ \E p \in {"exists", "missing", "denied"}, enc \in EncodingNames,
           size \in 0..MaxBufSize :
          IsFrame(NewFrame(<<>>, p, size, enc))
  /\ other = NoOther
  /\ CPIdle
  /\ RecIdle

Suspended(f) == f.pc \in {"created", "yield_loop", "yield_final"}

\* last_lines(filename, buf_size, encoding): a generator object is made and
\* no line of the body runs.
Call ==
  /\ pc = "uncalled"
  /\ SetFrame([Frame EXCEPT !.pc = "created"])
  /\ UNCHANGED <<other, cpVars, recVars>>

\* next(): the body runs to the next yield, to its end or to an exception.
Pull ==
  /\ Suspended(Frame)
  /\ ~abandoned
  /\ SetFrame(Resume(Frame))
  /\ UNCHANGED <<other, cpVars, recVars>>

\* next() during which the operating system fails a seek or a read.
PullFault ==
  /\ Suspended(Frame)
  /\ ~abandoned
  /\ \E k \in 1..MaxFaultRead :
       LET g == Resume([Frame EXCEPT !.faultIn = k])
       IN /\ g.osFault = "EIO"
          /\ SetFrame(g)
  /\ UNCHANGED <<other, cpVars, recVars>>

\* next() on a generator that has finished.
PullFinished ==
  /\ pc = "done"
  /\ ~abandoned
  /\ SetFrame(Resume(Frame))
  /\ UNCHANGED <<other, cpVars, recVars>>

\* close(), by the caller or by the finalizer of the generator object.
Close ==
  /\ Suspended(Frame)
  /\ SetFrame(CloseGen(Frame))
  /\ UNCHANGED <<other, cpVars, recVars>>

\* The caller stops calling next() and keeps the generator object.
Abandon ==
  /\ Suspended(Frame)
  /\ ~abandoned
  /\ SetFrame([Frame EXCEPT !.abandoned = TRUE])
  /\ UNCHANGED <<other, cpVars, recVars>>

Next == Call \/ Pull \/ PullFault \/ PullFinished \/ Close \/ Abandon

Spec == Init /\ [][Next]_vars

(* ------------------------ two generator objects ----------------------- *)
TwoMaxFileLen == 3
TwoMaxBufSize == 2
TwoOtherLen == 1

\* The bytes of the files read by two generators.
TwoBytes == {NL, CR, LeadC3}

TwoFiles(n) == {s \in SeqsUpTo(n) : \A i \in 1..Len(s) : s[i] \in TwoBytes}

TwoEncodings == {Latin1Hyphen, Ascii}

\* A generator object made by last_lines(filename, buf_size, encoding).
Created(content, size, enc) ==
  [NewFrame(content, "exists", size, enc) EXCEPT !.pc = "created"]

\* Two generator objects have been made, on the same file or on two files.
InitTwo ==
  \E content \in TwoFiles(TwoMaxFileLen), enc \in TwoEncodings,
     size \in 1..TwoMaxBufSize, osize \in 1..TwoMaxBufSize :
    \E ocontent \in {content} \cup TwoFiles(TwoOtherLen) :
      /\ IsFrame(Created(content, size, enc))
      /\ other = Created(ocontent, osize, enc)
      /\ CPIdle
      /\ RecIdle

\* The locals of the first generator after a next() of the second one, whose
\* frame was o: segment, offset, remaining_size, lines and fh are locals of
\* the generator's own frame, and each generator opens its own handle.
AfterOtherPull_sharedOffset(f, o) ==
  IF f.pc = "yield_loop" /\ Resume(o).pc = "yield_loop"
  THEN [f EXCEPT !.offset = Resume(o).offset,
                 !.remaining_size = Resume(o).remaining_size]
  ELSE f

AfterOtherPull(f, o) == f

\* next() on the second generator.
PullOther ==
  /\ Suspended(other)
  /\ other' = Resume(other)
  /\ SetFrame(AfterOtherPull(Frame, other))
  /\ UNCHANGED <<cpVars, recVars>>

\* next() on the second generator after it has finished.
PullOtherFinished ==
  /\ other.pc = "done"
  /\ other' = Resume(other)
  /\ SetFrame(AfterOtherPull(Frame, other))
  /\ UNCHANGED <<cpVars, recVars>>

NextTwo == Pull \/ PullFinished \/ PullOther \/ PullOtherFinished

SpecTwo == InitTwo /\ [][NextTwo]_vars

(* ------------------------- computed properties ------------------------ *)
\* The accessors of p besides its getter: none, a setter, or a setter and a
\* deleter.
Accessors == {<<{}, {}>>, <<{"p"}, {}>>, <<{"p"}, {"p"}>>}

\* The classes with the one computed property p, declared with any of the
\* plain attributes as dependencies; its getter reads a and b.
ClassesP ==
  {[props |-> {"p"}, deps |-> [x \in Props |-> IF x = "p" THEN dp ELSE {}],
    fset |-> acc[1], fdel |-> acc[2]] :
     dp \in SUBSET Attrs, acc \in Accessors}

\* The classes with a second computed property q, declared with p, or with
\* p, a and b, as dependencies; its getter reads p.
ClassesPQ ==
  {[props |-> Props, deps |-> [x \in Props |-> IF x = "p" THEN dp ELSE dq],
    fset |-> acc[1], fdel |-> acc[2]] :
     dp \in SUBSET Attrs, dq \in {{"p"}, {"p", "a", "b"}}, acc \in Accessors}

\* owner.__computed_dependency_map__: the properties declared with key as a
\* dependency.
DependencyMap(c) == [key \in Names |-> {x \in c.props : key \in c.deps[x]}]

\* What an operation gives: the object after it, whether it returned, and
\* the value it returned.
Returns(s, v) == [st |-> s, ok |-> TRUE, val |-> v]
Raises(s) == [st |-> s, ok |-> FALSE, val |-> Absent]

RECURSIVE Get(_, _, _)

\* The getter functions of the class.  p combines two plain attributes and
\* raises AttributeError when one of them is missing; q reads property p.
FuncGet(c, s, x) ==
  IF x = "p"
  THEN IF s.attrs["a"] = Absent \/ s.attrs["b"] = Absent
       THEN Raises(s)
       ELSE Returns(s, s.attrs["a"] + s.attrs["b"])
  ELSE LET r == Get(c, s, "p")
       IN IF r.ok THEN Returns(r.st, r.val + 1) ELSE r

\* ComputedProperty.__get__ on an object.
Get_ignoresCache(c, s, x) ==
  IF x \notin c.props THEN Raises(s)
  ELSE LET r == FuncGet(c, [s EXCEPT !.calls[x] = @ + 1], x)
       IN IF r.ok
          THEN Returns([r.st EXCEPT !.cache[x] = r.val, !.returned[x] = @ + 1], r.val)
          ELSE r

Get(c, s, x) ==
  IF x \notin c.props THEN Raises(s)
  ELSE IF s.cache[x] # Absent THEN Returns(s, s.cache[x])
  ELSE LET r == FuncGet(c, [s EXCEPT !.calls[x] = @ + 1], x)
       IN IF r.ok
          THEN Returns([r.st EXCEPT !.cache[x] = r.val, !.returned[x] = @ + 1], r.val)
          ELSE r

\* The getter calls of a property are counted anew from here.
EndRun(s, xs) ==
  [s EXCEPT !.calls = [x \in Props |-> IF x \in xs THEN 0 ELSE @[x]],
            !.returned = [x \in Props |-> IF x \in xs THEN 0 ELSE @[x]]]

Invalidate_keepsCache(c, s, key) == EndRun(s, DependencyMap(c)[key])

\* The loop of custom_setattr: the cache of each property declared with key
\* as a dependency is deleted.
Invalidate(c, s, key) ==
  LET affected == DependencyMap(c)[key]
  IN EndRun([s EXCEPT !.cache = [x \in Props |-> IF x \in affected THEN Absent
                                                 ELSE @[x]]],
            affected)

RECURSIVE CustomSetattr(_, _, _, _)

\* The setter and the deleter of the class: the setter stores the value in
\* attribute a, the deleter stores 0 in it.
FuncSet(c, s, x, v) == CustomSetattr(c, s, "a", v)
FuncDel(c, s, x) == CustomSetattr(c, s, "a", 0)

DescSet_keepsCache(c, s, x, v) ==
  IF x \notin c.fset THEN Raises(s) ELSE FuncSet(c, EndRun(s, {x}), x, v)

\* ComputedProperty.__set__
DescSet(c, s, x, v) ==
  IF x \notin c.fset THEN Raises(s)
  ELSE LET r == FuncSet(c, EndRun(s, {x}), x, v)
       IN IF r.ok THEN Returns([r.st EXCEPT !.cache[x] = Absent], Absent) ELSE r

\* ComputedProperty.__delete__
DescDelete(c, s, x) ==
  IF x \notin c.fdel THEN Raises(s)
  ELSE LET r == FuncDel(c, EndRun(s, {x}), x)
       IN IF r.ok THEN Returns([r.st EXCEPT !.cache[x] = Absent], Absent) ELSE r

\* custom_setattr(obj, key, value): the assignment obj.key = value.  The
\* original __setattr__ stores a plain attribute and hands a computed
\* property to its __set__.
CustomSetattr(c, s, key, v) ==
  LET r == IF key \in Props THEN DescSet(c, s, key, v)
           ELSE Returns([s EXCEPT !.attrs[key] = v], Absent)
  IN IF r.ok THEN Returns(Invalidate(c, r.st, key), Absent) ELSE r

\* The object o as one record, and the variables after an operation on it.
Obj(o) ==
  [attrs |-> attrs[o], cache |-> cache[o], calls |-> calls[o],
   returned |-> returned[o]]

SetObj(o, s) ==
  /\ attrs' = [attrs EXCEPT ![o] = s.attrs]
  /\ cache' = [cache EXCEPT ![o] = s.cache]
  /\ calls' = [calls EXCEPT ![o] = s.calls]
  /\ returned' = [returned EXCEPT ![o] = s.returned]
  /\ dropped' = {<<o, x>> : x \in {y \in Props : cache[o][y] # Absent /\ s.cache[y] = Absent}}

Idle == IsFrame(NoOther) /\ other = NoOther

\* What __init__ leaves in the plain attributes: a is set, b is set or not.
InitAttrs == {as \in [Attrs -> Values \cup {Absent}] : as["a"] # Absent}

\* A class has been defined and objects of it made: two objects, with all
\* their plain attributes set, of a class with one computed property, or
\* one object of a class with two computed properties.
InitCP ==
  /\ Idle
  /\ RecIdle
  /\ \/ /\ cls \in ClassesP /\ made = Objs
        /\ attrs \in [Objs -> [Attrs -> Values]]
     \/ /\ cls \in ClassesPQ /\ made = {"o1"}
        /\ \E as \in InitAttrs : attrs = [o \in Objs |-> IF o \in made THEN as ELSE NoAttrs]
  /\ cache = [o \in Objs |-> [x \in Props |-> Absent]]
  /\ calls = [o \in Objs |-> [x \in Props |-> 0]]
  /\ returned = [o \in Objs |-> [x \in Props |-> 0]]
  /\ dropped = {}
  /\ lastOp = "none"

\* obj.x for a computed property x.
Read(o, x) ==
  LET r == Get(cls, Obj(o), x)
  IN /\ o \in made /\ x \in cls.props
     /\ \A y \in Props : r.st.calls[y] <= MaxCalls
     /\ SetObj(o, r.st)
     /\ lastOp' = IF ~r.ok THEN "raised"
                  ELSE IF cache[o][x] # Absent THEN "cached" ELSE "computed"
     /\ UNCHANGED <<cls, made, genVars, other, recVars>>

\* obj.key = v for a plain attribute or a computed property.
Assign(o, key, v) ==
  LET r == CustomSetattr(cls, Obj(o), key, v)
  IN /\ o \in made /\ key \in Attrs \cup cls.props
     /\ SetObj(o, r.st)
     /\ lastOp' = IF r.ok THEN "assigned" ELSE "refused"
     /\ UNCHANGED <<cls, made, genVars, other, recVars>>

\* del obj.x for a computed property x.
Delete(o, x) ==
  LET r == DescDelete(cls, Obj(o), x)
  IN /\ o \in made /\ x \in cls.props
     /\ SetObj(o, r.st)
     /\ lastOp' = IF r.ok THEN "deleted" ELSE "refused"
     /\ UNCHANGED <<cls, made, genVars, other, recVars>>

ReadAny == \E o \in Objs, x \in Props : Read(o, x)
AssignAny == \E o \in Objs, key \in Names, v \in Values : Assign(o, key, v)
DeleteAny == \E o \in Objs, x \in Props : Delete(o, x)

NextCP == ReadAny \/ AssignAny \/ DeleteAny

SpecCP == InitCP /\ [][NextCP]_vars

(* --------------------------- reconciliation --------------------------- *)
MaxDate == 3
MaxRows == 2

\* The text of the k-th day from January 30th on, as <<month, day>>, and
\* the date that datetime.strptime(text, "%Y-%m-%d").date() makes of it, as
\* a day number in the year.
DateText(k) == IF k <= 2 THEN <<1, 29 + k>> ELSE <<2, k - 2>>
ParseDate(t) == (IF t[1] = 1 THEN 0 ELSE 31) + t[2]

\* float(text) of the amounts in the rows.
ParseAmount(t) ==
  CASE t = "100.00" -> 100
    [] t = "100.0" -> 100
    [] t = "200.00" -> 200

\* The rows [date, department, amount, name]: one transaction on each of
\* the days, and rows that differ from it in one field or in the text of
\* the amount only.
BaseRows == {<<DateText(k), "Sales", "100.00", "Product A">> : k \in 1..MaxDate}

OtherRows ==
  {<<DateText(1), "HR", "100.00", "Product A">>,
   <<DateText(1), "Sales", "200.00", "Product A">>,
   <<DateText(1), "Sales", "100.00", "Salary">>,
   <<DateText(1), "Sales", "100.0", "Product A">>}

RowLists(rows) == UNION {[1..k -> rows] : k \in 0..MaxRows}

\* TransactionReconciler.parse_row
parse_row(row) ==
  [date |-> ParseDate(row[1]), department |-> row[2],
   amount |-> ParseAmount(row[3]), name |-> row[4],
   status |-> "None", original_row |-> row]

\* Transaction.matches
matches_ignoresName(t, o) == t.department = o.department /\ t.amount = o.amount

matches(t, o) ==
  /\ t.department = o.department
  /\ t.amount = o.amount
  /\ t.name = o.name

\* Transaction.is_date_close
is_date_close(t, o) ==
  LET days == t.date - o.date
  IN (IF days < 0 THEN -days ELSE days) <= 1

\* min(found, key=lambda c: c.date) over the positions found: the first one
\* in the list among those of the earliest date.
MinByDate(candidates, found) ==
  CHOOSE j \in found :
    \A k \in found : \/ candidates[j].date < candidates[k].date
                     \/ candidates[j].date = candidates[k].date /\ j <= k

\* TransactionReconciler.find_match: the position of the match in
\* candidates, 0 for None.
find_match_ignoresStatus(txn, candidates) ==
  LET close_matches == {j \in 1..Len(candidates) :
                          is_date_close(txn, candidates[j]) /\ matches(txn, candidates[j])}
  IN IF close_matches # {} THEN MinByDate(candidates, close_matches) ELSE 0

find_match_closeFirst(txn, candidates) ==
  LET close_matches == {j \in 1..Len(candidates) :
                          /\ candidates[j].status = "None"
                          /\ is_date_close(txn, candidates[j])
                          /\ matches(txn, candidates[j])}
  IN IF close_matches # {} THEN MinByDate(candidates, close_matches) ELSE 0

find_match_exactOnly(txn, candidates) ==
  LET exact_matches == {j \in 1..Len(candidates) :
                          /\ candidates[j].status = "None"
                          /\ txn.date = candidates[j].date
                          /\ matches(txn, candidates[j])}
  IN IF exact_matches # {} THEN MinByDate(candidates, exact_matches) ELSE 0

find_match(txn, candidates) ==
  LET exact_matches == {j \in 1..Len(candidates) :
                          /\ candidates[j].status = "None"
                          /\ txn.date = candidates[j].date
                          /\ matches(txn, candidates[j])}
      close_matches == {j \in 1..Len(candidates) :
                          /\ candidates[j].status = "None"
                          /\ is_date_close(txn, candidates[j])
                          /\ matches(txn, candidates[j])}
  IN IF exact_matches # {} THEN MinByDate(candidates, exact_matches)
     ELSE IF close_matches # {} THEN MinByDate(candidates, close_matches)
     ELSE 0

\* Lines 109-114: every transaction without status becomes MISSING.
TagMissing_exceptLast(txns) ==
  [k \in 1..Len(txns) |->
     IF txns[k].status = "None" /\ k < Len(txns)
     THEN [txns[k] EXCEPT !.status = "MISSING"] ELSE txns[k]]

TagMissing(txns) ==
  [k \in 1..Len(txns) |->
     IF txns[k].status = "None" THEN [txns[k] EXCEPT !.status = "MISSING"]
     ELSE txns[k]]

\* Lines 117-118: ",".join(txn.original_row + [txn.status]), as the fields
\* that the commas separate.
JoinRows(txns) == [k \in 1..Len(txns) |-> Append(txns[k].original_row, txns[k].status)]

\* TransactionReconciler(rows1, rows2) has been constructed.
InitRec ==
  /\ Idle
  /\ CPIdle
  /\ rows1 \in RowLists(BaseRows)
  /\ rows2 \in RowLists(BaseRows \cup OtherRows)
  /\ transactions1 = [k \in 1..Len(rows1) |-> parse_row(rows1[k])]
  /\ transactions2 = [k \in 1..Len(rows2) |-> parse_row(rows2[k])]
  /\ rpc = "matching" /\ nxt = 1
  /\ out1 = <<>> /\ out2 = <<>>
  /\ partner = <<>>

\* One turn of the loop of line 102.
MatchStep ==
  /\ rpc = "matching" /\ nxt <= Len(transactions1)
  /\ LET match == find_match(transactions1[nxt], transactions2)
     IN /\ IF match # 0
           THEN /\ transactions1' = [transactions1 EXCEPT ![nxt].status = "FOUND"]
                /\ transactions2' = [transactions2 EXCEPT ![match].status = "FOUND"]
           ELSE UNCHANGED <<transactions1, transactions2>>
        /\ partner' = Append(partner, match)
  /\ nxt' = nxt + 1
  /\ UNCHANGED <<rows1, rows2, rpc, out1, out2, genVars, other, cpVars>>

\* The loop of line 102 is over: lines 109-114.
Tag ==
  /\ rpc = "matching" /\ nxt > Len(transactions1)
  /\ transactions1' = TagMissing(transactions1)
  /\ transactions2' = TagMissing(transactions2)
  /\ rpc' = "joining"
  /\ UNCHANGED <<rows1, rows2, nxt, out1, out2, partner, genVars, other, cpVars>>

\* Lines 117-120.
Return ==
  /\ rpc = "joining"
  /\ out1' = JoinRows(transactions1)
  /\ out2' = JoinRows(transactions2)
  /\ rpc' = "returned"
  /\ UNCHANGED <<rows1, rows2, transactions1, transactions2, nxt, partner,
                 genVars, other, cpVars>>

NextRec == MatchStep \/ Tag \/ Return

SpecRec == InitRec /\ [][NextRec]_vars

(* ------------------------- what the claims use ------------------------ *)
\* The file without the one newline that ends it.
DropTrailingNL(b) == IF EndsWithNL(b) THEN SubSeq(b, 1, Len(b) - 1) ELSE b

\* The logical lines of the file, first to last, as bytes.
LogicalLines == SplitNL(DropTrailingNL(file))

Reverse(s) == [i \in 1..Len(s) |-> s[Len(s) + 1 - i]]

\* An item without its final '\n'.
DropFinalNL(item) ==
  IF Len(item) > 0 /\ item[Len(item)] = NL THEN SubSeq(item, 1, Len(item) - 1) ELSE item

\* The generator ran to its end or to an exception under next() alone.
PulledToEnd == pc = "done" /\ ~closedByCaller

\* The body of the generator has started.
Started == pc \notin {"uncalled", "created"} /\ (fh # "none" \/ error # "none")

ValidBufSize == buf_size >= MinBufSize(encoding)

\* The file exists and can be opened, and no seek or read of it has failed.
Readable == path = "exists" /\ osFault = "none"

AllLinesDecode == \A j \in 1..Len(LogicalLines) : Decode(LogicalLines[j], encoding).ok

DecodedLines == [j \in 1..Len(LogicalLines) |-> Decode(LogicalLines[j], encoding).text]

\* The k-th item yielded is the k-th logical line from the end of the file.
ItemIsLine(k) ==
  /\ k <= Len(LogicalLines)
  /\ DropFinalNL(emitted[k]) = DecodedLines[Len(LogicalLines) + 1 - k]

\* A chunk read started between the byte before and the byte after, 1-based
\* position p of the byte before.
BoundaryAfter(p) == \E r \in 1..Len(reads) : reads[r][1] = p

(* -------------------------------- C1 ---------------------------------- *)
\* C1 as stated: for every file whose lines decode and every buf_size at or
\* above the minimum, the items pulled to exhaustion, reversed and without
\* their final '\n', are the content of the file split on '\n' after one
\* trailing '\n' was dropped.  The empty file refutes it: its split is one
\* empty line and nothing is yielded.
C1_AsStated ==
  (PulledToEnd /\ Readable /\ ValidBufSize /\ AllLinesDecode)
    => /\ error = "none"
       /\ Reverse([k \in 1..Len(emitted) |-> DropFinalNL(emitted[k])]) = DecodedLines

\* C1, amended: the same for every file that is not empty.
C1_Thm ==
  (PulledToEnd /\ Readable /\ ValidBufSize /\ AllLinesDecode /\ file # <<>>)
    => /\ error = "none"
       /\ Reverse([k \in 1..Len(emitted) |-> DropFinalNL(emitted[k])]) = DecodedLines

\* Three lines were reassembled from more than one chunk.
C1_Witness ==
  /\ PulledToEnd /\ Readable /\ ValidBufSize /\ AllLinesDecode
  /\ error = "none"
  /\ Len(emitted) = 3
  /\ Len(reads) >= 2
  /\ \E k \in 1..3 : Len(emitted[k]) >= 3

(* -------------------------------- C2 ---------------------------------- *)
\* C2: every item yielded holds exactly one '\n', its last character, and
\* is otherwise the decoded logical line it stands for, so a '\r' before
\* the delimiter stays in the item, wherever the chunks were cut.
C2_Thm ==
  \A k \in 1..Len(emitted) :
    /\ Len(emitted[k]) >= 1
    /\ emitted[k][Len(emitted[k])] = NL
    /\ \A i \in 1..(Len(emitted[k]) - 1) : emitted[k][i] # NL
    /\ ItemIsLine(k)

\* A chunk boundary fell between a '\r' and its '\n', and the item of that
\* line ends with "\r\n".
C2_Witness ==
  /\ PulledToEnd /\ error = "none"
  /\ \E p \in 1..(Len(file) - 1) :
       /\ file[p] = CR /\ file[p + 1] = NL
       /\ BoundaryAfter(p)
  /\ \E k \in 1..Len(emitted) :
       /\ Len(emitted[k]) >= 2
       /\ emitted[k][Len(emitted[k]) - 1] = CR

(* -------------------------------- C3 ---------------------------------- *)
\* C3: with buf_size below the minimum the call of last_lines itself fails
\* with ValueError: once the call has returned, the error has been raised.
C3_Claim ==
  (pc # "uncalled" /\ ~ValidBufSize) => error = "ValueError"

(* -------------------------------- C4 ---------------------------------- *)
\* C4: with buf_size below the minimum the file is never opened or read and
\* ValueError is the only exception, also when the path does not exist.
C4_Thm ==
  ~ValidBufSize
    => /\ fh = "none"
       /\ reads = <<>>
       /\ emitted = <<>>
       /\ error \in {"none", "ValueError"}
       /\ PulledToEnd => error = "ValueError"

C4_Witness ==
  /\ ~ValidBufSize /\ path = "missing" /\ PulledToEnd /\ error = "ValueError"

(* -------------------------------- C5 ---------------------------------- *)
\* The minimum the claim states: 4 for a variable-width multi-byte codec,
\* 1 for a single-byte codec.
StatedMinBufSize(enc) == IF CodecOf(enc) \in {"utf_8", "utf_16"} THEN 4 ELSE 1

\* C5: for every encoding name, buf_size is rejected with ValueError exactly
\* when it is below 4 for a variable-width multi-byte encoding and below 1
\* for a single-byte encoding.
C5_Claim ==
  Started => ((error = "ValueError") <=> (buf_size < StatedMinBufSize(encoding)))

C7_Thm ==
  /\ failedAt = "final"
       => /\ error = "BufferTooSmallException"
          /\ remaining_size = 0
          /\ segment = LogicalLines[1]
          /\ ~Decode(segment, encoding).ok
  /\ ( /\ PulledToEnd /\ Readable /\ ValidBufSize
       /\ CodecOf(encoding) = "utf_8"
       /\ buf_size >= Len(file)
       /\ \A i \in 1..Len(file) : file[i] # NL
       /\ ~Decode(file, encoding).ok )
       => error = "BufferTooSmallException"

C7_Witness ==
  /\ PulledToEnd /\ Readable /\ ValidBufSize
  /\ CodecOf(encoding) = "utf_8"
  /\ buf_size >= Len(file)
  /\ \A i \in 1..Len(file) : file[i] # NL
  /\ ~Decode(file, encoding).ok
  /\ failedAt = "final"
  /\ error = "BufferTooSmallException"

(* -------------------------------- C8 ---------------------------------- *)
\* C8: a decode failure of a line yielded while unconsumed bytes remain is
\* BufferTooSmallException; the generator is finished by it: the chunks read
\* are the full ones read before the failure, the rest of the file is left
\* unread and no further next() reads or yields anything.
C8_Thm ==
  (failedAt = "loop" /\ remaining_size > 0)
    => /\ error = "BufferTooSmallException"
       /\ pc = "done"
       /\ fh = "closed"
       /\ Len(reads) * buf_size = offset
       /\ offset + remaining_size = file_size
       /\ ~ENABLED Pull

C8_Witness ==
  /\ failedAt = "loop" /\ remaining_size > 0
  /\ error = "BufferTooSmallException"
  /\ Len(emitted) >= 1

(* -------------------------------- C9 ---------------------------------- *)
\* The file holds bytes that are invalid under the encoding.
HasInvalidBytes == ~Decode(file, encoding).ok

C9_Pre ==
  /\ PulledToEnd /\ Readable /\ ValidBufSize
  /\ buf_size < Len(file)
  /\ HasInvalidBytes

\* C9 as stated: a file with invalid bytes read with buf_size smaller than
\* the file fails with BufferTooSmallException, wherever the bytes lie.
C9_AsStated == C9_Pre => error = "BufferTooSmallException"

\* The undecodable logical line nearest the end of the file.
FailingLine ==
  CHOOSE k \in 1..Len(LogicalLines) :
    /\ ~Decode(LogicalLines[k], encoding).ok
    /\ \A j \in (k + 1)..Len(LogicalLines) : Decode(LogicalLines[j], encoding).ok

\* The 0-based offset in the file of the first byte of logical line k.
RECURSIVE LineStart(_)
LineStart(k) == IF k = 1 THEN 0 ELSE LineStart(k - 1) + Len(LogicalLines[k - 1]) + 1

\* The length of the chunk that touches the start of the file.
LastChunkLen == Len(file) - buf_size * ((Len(file) - 1) \div buf_size)

\* C9, amended: such a file fails with BufferTooSmallException, except when
\* the undecodable line nearest the end of the file is not its first line
\* and the delimiter before that line lies in the chunk that touches the
\* start of the file: then no unconsumed bytes remain and the failure is
\* UnicodeDecodeError.
C9_Thm ==
  C9_Pre =>
    error = IF FailingLine > 1 /\ LineStart(FailingLine) - 1 < LastChunkLen
            THEN "UnicodeDecodeError"
            ELSE "BufferTooSmallException"

C9_Witness ==
  /\ C9_Pre
  /\ FailingLine > 1 /\ LineStart(FailingLine) - 1 < LastChunkLen
  /\ Len(reads) >= 2
  /\ error = "UnicodeDecodeError"

(* -------------------------------- C10 --------------------------------- *)
\* C10: a file whose every logical line is valid UTF-8, read with buf_size
\* at least 4, raises no error, and every item is the decoded line it stands
\* for, all the lines of the file once pulled to the end (the empty file has
\* no line to yield), also when a chunk boundary falls inside a code point.
C10_Thm ==
  (Readable /\ CodecOf(encoding) = "utf_8" /\ buf_size >= 4 /\ AllLinesDecode)
    => /\ error = "none"
       /\ failedAt = "none"
       /\ \A k \in 1..Len(emitted) : ItemIsLine(k)
       /\ (PulledToEnd /\ file # <<>>) => Len(emitted) = Len(LogicalLines)

\* A chunk boundary fell between the two bytes of a code point and the file
\* was read to its end.
C10_Witness ==
  /\ Readable /\ CodecOf(encoding) = "utf_8" /\ buf_size >= 4
  /\ AllLinesDecode
  /\ PulledToEnd /\ error = "none"
  /\ \E p \in 1..(Len(file) - 1) :
       /\ file[p] = LeadC3 /\ file[p + 1] = ContA9
       /\ BoundaryAfter(p)
  /\ \E k \in 1..Len(emitted) : \E i \in 1..Len(emitted[k]) : emitted[k][i] = 233

(* -------------------------------- C11 --------------------------------- *)
\* The chunks read that hold a byte of logical line j.
ReadsOfLine(j) ==
  {r \in 1..Len(reads) :
     /\ reads[r][1] < LineStart(j) + Len(LogicalLines[j])
     /\ LineStart(j) < reads[r][1] + reads[r][2]}

\* C11: a logical line longer than buf_size is yielded as one item that
\* holds the whole line, put together from the two or more chunks it spans;
\* no item is a piece of a line.
C11_Thm ==
  \A k \in 1..Len(emitted) :
    LET j == Len(LogicalLines) + 1 - k
    IN /\ k <= Len(LogicalLines)
       /\ Len(LogicalLines[j]) > buf_size
            => /\ emitted[k] = DecodedLines[j] \o <<NL>>
               /\ Decode(LogicalLines[j], encoding).ok
               /\ Cardinality(ReadsOfLine(j)) >= 2
               /\ Cardinality(ReadsOfLine(j)) * buf_size >= Len(LogicalLines[j])

\* A line of three bytes was read one byte at a time and yielded whole.
C11_Witness ==
  /\ PulledToEnd /\ error = "none"
  /\ Len(emitted) >= 2
  /\ \E k \in 1..Len(emitted) :
       /\ Len(LogicalLines[Len(LogicalLines) + 1 - k]) > 2 * buf_size
       /\ Cardinality(ReadsOfLine(Len(LogicalLines) + 1 - k)) >= 3
       /\ Len(emitted[k]) >= 4

(* -------------------------------- C12 --------------------------------- *)
\* C12: for a file of size 0 nothing is yielded, no chunk is read and the
\* generator ends without error, its handle closed.
C12_Thm ==
  (path = "exists" /\ file = <<>> /\ ValidBufSize)
    => /\ emitted = <<>>
       /\ reads = <<>>
       /\ error = "none"
       /\ PulledToEnd => (result = "StopIteration" /\ fh = "closed")

C12_Witness ==
  /\ path = "exists" /\ file = <<>> /\ ValidBufSize
  /\ PulledToEnd /\ result = "StopIteration" /\ fh = "closed"

(* -------------------------------- C13 --------------------------------- *)
\* The i-th chunk of a backward walk in chunks of buf_size bytes.
ChunkOfWalk(i) ==
  <<Len(file) - Min(Len(file), i * buf_size),
    Min(buf_size, Len(file) - (i - 1) * buf_size)>>

\* C13: when the K-th item is handed over and is not the last one, the
\* chunks read are the chunks of the backward walk from the end of the file
\* down to the one that holds the delimiter before the line of that item,
\* and no byte before that chunk has been read.
C13_Thm ==
  pc = "yield_loop"
    => LET K == Len(emitted)
           d == LineStart(Len(LogicalLines) + 1 - K) - 1
           last == reads[Len(reads)]
       IN /\ K < Len(LogicalLines)
          /\ \A i \in 1..Len(reads) : reads[i] = ChunkOfWalk(i)
          /\ last[1] <= d /\ d < last[1] + last[2]
          /\ remaining_size = last[1]
          /\ offset = Len(file) - last[1]

\* The caller has stopped after two items and the start of the file is unread.
C13_Witness ==
  /\ pc = "yield_loop" /\ abandoned
  /\ Len(emitted) = 2
  /\ Len(reads) >= 2
  /\ remaining_size >= 2

(* -------------------------------- C14 --------------------------------- *)
\* C14 as stated: one next() reads at most one chunk.  A chunk without
\* delimiter refutes it: the same next() goes on to the next chunk.
C14_AsStated == [][Len(reads') <= Len(reads) + 1]_vars

\* The bytes of the i-th chunk read, as the generator splits them.
ChunkBytes(rs, i) ==
  LET raw == SubSeq(file, rs[i][1] + 1, rs[i][1] + rs[i][2])
  IN IF i = 1 THEN DropTrailingNL(raw) ELSE raw

HasNL(b) == \E i \in 1..Len(b) : b[i] = NL

\* C14, amended: one next() reads no chunk while a line of the current chunk
\* is left to hand over; otherwise it reads chunks one after another until
\* one holds a delimiter or the start of the file is reached, so that of the
\* chunks it reads only the last one can hold a delimiter.
C14_Thm ==
  [][ /\ (pc = "yield_loop" /\ idx > 2) => reads' = reads
      /\ \A i \in (Len(reads) + 1)..(Len(reads') - 1) : ~HasNL(ChunkBytes(reads', i))
    ]_vars

\* The first next() read the three chunks of a file of one line.
C14_Witness ==
  /\ pc = "yield_final"
  /\ Len(emitted) = 1
  /\ Len(reads) = 3
  /\ result = "item"

(* -------------------------------- C15 --------------------------------- *)
\* C15: when an exception leaves the generator it is finished and its
\* handle is not open at the moment the caller gets the exception; a
\* finished generator stays finished: a later next() yields nothing, reads
\* nothing and raises StopIteration.
C15_Thm ==
  /\ [](error # "none" => (pc = "done" /\ fh # "open" /\ result \in {"error", "StopIteration"}))
  /\ [][pc = "done" => /\ pc' = "done"
                       /\ emitted' = emitted
                       /\ reads' = reads
                       /\ fh' = fh
                       /\ error' = error
                       /\ result' = "StopIteration"]_vars

\* After a decode error that followed an item, a later next() raised
\* StopIteration.
C15_Witness ==
  /\ error = "BufferTooSmallException"
  /\ Len(emitted) >= 1
  /\ fh = "closed"
  /\ result = "StopIteration"

(* -------------------------------- C16 --------------------------------- *)
\* C16: the handle is released on exhaustion and on abandonment: once the
\* caller has stopped calling next(), or the generator is finished, the
\* handle is not open.
C16_Claim == (abandoned \/ pc = "done") => fh # "open"

(* -------------------------------- C17 --------------------------------- *)
\* The items of all the lines, last line first.
ExpectedItems ==
  [k \in 1..Len(LogicalLines) |-> DecodedLines[Len(LogicalLines) + 1 - k] \o <<NL>>]

\* C17: the items yielded are always a prefix of the items of the lines of
\* the file in reverse order, each the item of a line that decodes; after a
\* decode error they are exactly the lines that follow the failing line, and
\* nothing of the failing line has been yielded.
C17_Thm ==
  /\ Len(emitted) <= Len(LogicalLines)
  /\ emitted = SubSeq(ExpectedItems, 1, Len(emitted))
  /\ \A k \in 1..Len(emitted) :
       Decode(LogicalLines[Len(LogicalLines) + 1 - k], encoding).ok
  /\ failedAt # "none"
       => /\ error \in {"BufferTooSmallException", "UnicodeDecodeError"}
          /\ Len(emitted) = Len(LogicalLines) - FailingLine

\* Two lines were yielded and the line before them did not decode.
C17_Witness ==
  /\ failedAt = "loop"
  /\ Len(emitted) = 2
  /\ FailingLine = Len(LogicalLines) - 2

(* -------------------------------- C18 --------------------------------- *)
\* C18: a path that does not exist gives FileNotFoundError itself, without a
\* cause; any other failure of open, seek or read gives an OSError whose
\* cause is the error of the operating system; a decode error or a
\* ValueError is never turned into OSError.
C18_Thm ==
  /\ osFault = "FileNotFoundError" => (error = "FileNotFoundError" /\ cause = "none")
  /\ osFault \in {"PermissionError", "EIO"} => (error = "OSError" /\ cause = osFault)
  /\ osFault = "none" => error \notin {"OSError", "FileNotFoundError"}
  /\ (path = "missing" /\ ValidBufSize /\ PulledToEnd) => osFault = "FileNotFoundError"
  /\ (path = "denied" /\ ValidBufSize /\ PulledToEnd) => osFault = "PermissionError"
  /\ failedAt # "none"
       => (osFault = "none" /\ error \in {"BufferTooSmallException", "UnicodeDecodeError"})
  /\ (~ValidBufSize /\ PulledToEnd) => (osFault = "none" /\ error = "ValueError")

\* A read failed after an item had been yielded.
C18_Witness ==
  /\ osFault = "EIO" /\ error = "OSError" /\ cause = "EIO"
  /\ Len(emitted) >= 1
  /\ fh = "closed"

\* The generator made with the arguments of f, before its first next().
Alone(f) == Created(f.file, f.buf_size, f.encoding)

\* f is a state that the generator g reaches when next() is called on it
\* and on nothing else.
RECURSIVE OnOwnRun(_, _)
OnOwnRun(f, g) ==
  \/ f = g
  \/ g.pc # "done" /\ OnOwnRun(f, Resume(g))
  \/ g.pc = "done" /\ f = Resume(g)

\* The generator g run alone to its end.
RECURSIVE RunAlone(_)
RunAlone(g) == IF g.pc = "done" THEN g ELSE RunAlone(Resume(g))

IsPrefix(s, t) == Len(s) <= Len(t) /\ SubSeq(t, 1, Len(s)) = s

\* What one generator has given is what it gives when run alone.
AsAlone(f) ==
  /\ OnOwnRun(f, Alone(f))
  /\ IsPrefix(f.emitted, RunAlone(Alone(f)).emitted)
  /\ f.pc = "done" => /\ f.emitted = RunAlone(Alone(f)).emitted
                      /\ f.error = RunAlone(Alone(f)).error

C20_AsStated == \A o \in Objs, x \in Props : calls[o][x] <= 1

\* C20: between two assignments to a declared dependency, setter calls or
\* deleter calls, the getter of a property returns at most once on an
\* object, and once it has returned its value is cached; a read that finds
\* the cache returns the cached value, calls no getter and changes nothing;
\* a read that finds no cache calls the getter once, and caches what it
\* returns or, when the getter raises, caches nothing, so that the next read
\* calls the getter again.
C20_Thm ==
  /\ [](\A o \in Objs, x \in Props :
          /\ returned[o][x] <= 1
          /\ returned[o][x] = 1 => cache[o][x] # Absent)
  /\ [][\A o \in Objs, x \in Props :
          Read(o, x) =>
            IF cache[o][x] # Absent
            THEN /\ lastOp' = "cached"
                 /\ Get(cls, Obj(o), x).val = cache[o][x]
                 /\ UNCHANGED <<attrs, cache, calls, returned>>
            ELSE /\ calls'[o][x] = calls[o][x] + 1
                 /\ IF lastOp' = "computed"
                    THEN /\ cache'[o][x] = Get(cls, Obj(o), x).val
                         /\ returned'[o][x] = 1
                    ELSE /\ lastOp' = "raised"
                         /\ cache'[o][x] = Absent
                         /\ returned'[o][x] = returned[o][x]]_vars

\* A read has just been served from the cache of a property whose getter
\* ran once.
C20_Witness ==
  /\ lastOp = "cached"
  /\ \E o \in made : /\ cache[o]["p"] # Absent
                     /\ calls[o]["p"] = 1 /\ returned[o]["p"] = 1
                     /\ cache[o]["q"] = Absent

\* What a read of x on o gives when it has to compute: the outcome of the
\* getter of x on the object as it is.
Computes(o, x) ==
  LET r == FuncGet(cls, Obj(o), x)
  IN IF r.ok THEN lastOp' = "computed" /\ cache'[o][x] = r.val
     ELSE lastOp' = "raised" /\ cache'[o][x] = Absent

\* C21: an assignment obj.key = v that does not raise leaves no cached
\* value, on that object, of any property declared with key as a dependency;
\* the next read of such a property calls its getter and gives what the
\* getter gives on the attributes as they are then (for p, the sum of the
\* current a and b), and caches it.
C21_Thm ==
  /\ [][\A o \in Objs, key \in Names, v \in Values :
          (Assign(o, key, v) /\ lastOp' = "assigned") =>
            \A x \in cls.props :
              key \in cls.deps[x] =>
                /\ cache'[o][x] = Absent
                /\ calls'[o][x] = 0
                /\ cache[o][x] # Absent => <<o, x>> \in dropped']_vars
  /\ [][\A o \in Objs, x \in Props :
          (Read(o, x) /\ lastOp = "assigned" /\ <<o, x>> \in dropped) =>
            /\ calls'[o][x] = 1
            /\ Computes(o, x)
            /\ (x = "p" /\ lastOp' = "computed")
                 => cache'[o][x] = attrs[o]["a"] + attrs[o]["b"]]_vars

\* The assignment of a plain attribute has just deleted the cached values
\* of the two properties declared with it.
C21_Witness ==
  /\ lastOp = "assigned"
  /\ dropped = {<<"o1", "p">>, <<"o1", "q">>}
  /\ cls.fset = {}
  /\ cache["o1"]["p"] = Absent /\ cache["o1"]["q"] = Absent

\* C22: obj.x = v on a property with a setter runs the setter (attribute a
\* holds v afterwards, b is as it was) and del obj.x on a property with a
\* deleter runs the deleter (attribute a holds 0 afterwards); neither
\* raises, and neither leaves a cached value of x on the object, so the next
\* read of x calls the getter on the attributes as they were left.  Without
\* a setter, or without a deleter, the operation raises AttributeError and
\* leaves the attributes and the cached values as they were.
C22_Thm ==
  /\ [][\A o \in Objs, x \in Props, v \in Values :
          Assign(o, x, v) =>
            IF x \in cls.fset
            THEN /\ lastOp' = "assigned"
                 /\ attrs'[o] = [attrs[o] EXCEPT !["a"] = v]
                 /\ cache'[o][x] = Absent /\ calls'[o][x] = 0
            ELSE /\ lastOp' = "refused"
                 /\ UNCHANGED <<attrs, cache>>]_vars
  /\ [][\A o \in Objs, x \in Props :
          Delete(o, x) =>
            IF x \in cls.fdel
            THEN /\ lastOp' = "deleted"
                 /\ attrs'[o] = [attrs[o] EXCEPT !["a"] = 0]
                 /\ cache'[o][x] = Absent /\ calls'[o][x] = 0
            ELSE /\ lastOp' = "refused"
                 /\ UNCHANGED <<attrs, cache>>]_vars
  /\ [][\A o \in Objs, x \in Props :
          (Read(o, x) /\ lastOp \in {"assigned", "deleted"} /\ x \in cls.fset
             /\ cache[o][x] = Absent /\ calls[o][x] = 0) =>
            /\ calls'[o][x] = 1
            /\ Computes(o, x)]_vars

\* The setter of p has just run on an object that held a cached value of p:
\* the value given is in a and no cached value of p is left.
C22_Witness ==
  /\ lastOp = "assigned"
  /\ "p" \in cls.fset /\ cls.deps["p"] = {}
  /\ <<"o2", "p">> \in dropped
  /\ cache["o2"]["p"] = Absent
  /\ attrs["o2"]["a"] = 1

\* An assignment to a property without setter has just raised, and the
\* cached value is still there.
C22_WitnessRefused ==
  /\ lastOp = "refused"
  /\ cls.fset = {}
  /\ cache["o1"]["p"] # Absent

\* The statuses of a list of output rows, and the number of FOUND among them.
StatusOf(row) == row[Len(row)]

FoundIn(txns) == {k \in 1..Len(txns) : txns[k].status = "FOUND"}

\* An output row is the row given followed by one status.
IsRowWithStatus(outRow, row) ==
  /\ Len(outRow) = Len(row) + 1
  /\ SubSeq(outRow, 1, Len(row)) = row
  /\ StatusOf(outRow) \in {"FOUND", "MISSING"}

\* C23: when reconcile has returned, each of the two lists returned has the
\* length of the list of rows given, its k-th element is the k-th row given
\* followed by one status, FOUND or MISSING, and no transaction is without
\* a status.
C23_Thm ==
  rpc = "returned" =>
    /\ Len(out1) = Len(rows1) /\ Len(out2) = Len(rows2)
    /\ \A k \in 1..Len(rows1) :
         /\ IsRowWithStatus(out1[k], rows1[k])
         /\ transactions1[k].status = StatusOf(out1[k])
    /\ \A k \in 1..Len(rows2) :
         /\ IsRowWithStatus(out2[k], rows2[k])
         /\ transactions2[k].status = StatusOf(out2[k])

\* reconcile has returned lists of two rows each, with both statuses in
\* each of them.
C23_Witness ==
  /\ rpc = "returned"
  /\ Len(out1) = 2 /\ Len(out2) = 2
  /\ {StatusOf(out1[k]) : k \in 1..2} = {"FOUND", "MISSING"}
  /\ {StatusOf(out2[k]) : k \in 1..2} = {"FOUND", "MISSING"}
  /\ rows1[1] # rows1[2] /\ rows2[1] # rows2[2]

\* The transactions of the first list that have been through the loop of
\* line 102 and were given a match.
Paired == {k \in 1..Len(partner) : partner[k] # 0}

\* C24: at every moment the pairs made are one-to-one: no two transactions
\* of the first list have the same match, a transaction of the first list
\* is FOUND exactly when it has a match, a transaction of the second list
\* is FOUND exactly when it is the match of one of the first, and the two
\* lists hold the same number of FOUND; the rows returned say the same.
C24_Thm ==
  /\ \A k, l \in Paired : partner[k] = partner[l] => k = l
  /\ FoundIn(transactions1) = Paired
  /\ FoundIn(transactions2) = {partner[k] : k \in Paired}
  /\ Cardinality(FoundIn(transactions1)) = Cardinality(FoundIn(transactions2))
  /\ rpc = "returned" =>
       Cardinality({k \in 1..Len(out1) : StatusOf(out1[k]) = "FOUND"})
         = Cardinality({k \in 1..Len(out2) : StatusOf(out2[k]) = "FOUND"})

\* Two identical candidates for the one transaction of the first list: the
\* first is FOUND and the second is MISSING.
C24_Witness ==
  /\ rpc = "returned"
  /\ Len(rows1) = 1 /\ Len(rows2) = 2
  /\ rows2[1] = rows2[2] /\ rows1[1] = rows2[1]
  /\ partner = <<1>>
  /\ transactions2[2].status = "MISSING"

\* The days between the dates of two rows.
DaysApart(r, q) ==
  LET days == ParseDate(r[1]) - ParseDate(q[1])
  IN IF days < 0 THEN -days ELSE days

\* Two rows may be paired: same department, same amount, same name, and
\* dates at most one day apart.
Compatible(r, q) ==
  /\ r[2] = q[2]
  /\ ParseAmount(r[3]) = ParseAmount(q[3])
  /\ r[4] = q[4]
  /\ DaysApart(r, q) <= 1

\* C25: every pair made is of two rows with the same department, the same
\* amount, the same name and dates at most one day apart, and a transaction
\* is FOUND only if it is in such a pair.
C25_Thm ==
  /\ \A k \in Paired : Compatible(rows1[k], rows2[partner[k]])
  /\ \A k \in FoundIn(transactions1) : k \in Paired
  /\ \A j \in FoundIn(transactions2) : \E k \in Paired : partner[k] = j

\* A pair of rows one day apart has been made, and a row of the second
\* list that differs in one field from a row of the first list, which is
\* MISSING too, has been left MISSING.
C25_Witness ==
  /\ rpc = "returned"
  /\ \E k \in Paired : DaysApart(rows1[k], rows2[partner[k]]) = 1
  /\ \E k \in 1..Len(rows1), j \in 1..Len(rows2) :
       /\ transactions1[k].status = "MISSING"
       /\ transactions2[j].status = "MISSING"
       /\ rows2[j] \in OtherRows
       /\ rows1[k][1] = rows2[j][1]
       /\ ~Compatible(rows1[k], rows2[j])

\* The candidates that find_match may return for txn: without status and
\* compatible with it.
Unmatched(txn, candidates) ==
  {j \in 1..Len(candidates) :
     /\ candidates[j].status = "None"
     /\ Compatible(txn.original_row, candidates[j].original_row)}

\* C26: in each turn of the loop, what find_match returns for txn1 is a
\* candidate without status and compatible with txn1; it has the date of
\* txn1 whenever such a candidate with that date exists, and otherwise the
\* earliest date among such candidates; it is None exactly when there is
\* no such candidate.
C26_Thm ==
  [][MatchStep =>
       LET txn == transactions1[nxt]
           free == Unmatched(txn, transactions2)
           match == partner'[nxt]
       IN /\ match = 0 <=> free = {}
          /\ match # 0 =>
               /\ match \in free
               /\ (\E j \in free : transactions2[j].date = txn.date)
                    => transactions2[match].date = txn.date
               /\ (\A j \in free : transactions2[j].date # txn.date)
                    => \A j \in free : transactions2[match].date <= transactions2[j].date]_vars

\* The first candidate is one day before the transaction and the second has
\* its date: the second was returned and the first is left.
C26_Witness ==
  /\ Len(partner) >= 1 /\ Len(rows2) = 2
  /\ partner[1] = 2
  /\ transactions2[1].date = transactions1[1].date - 1
  /\ transactions2[2].date = transactions1[1].date
  /\ Compatible(rows1[1], rows2[1])
  /\ transactions2[1].status # "FOUND"

\* No candidate has the date of the transaction and the second one, a day
\* before it, was returned rather than the first one, a day after it.
C26_WitnessEarliest ==
  /\ Len(partner) >= 1 /\ Len(rows2) = 2
  /\ partner[1] = 2
  /\ transactions2[1].date = transactions1[1].date + 1
  /\ transactions2[2].date = transactions1[1].date - 1
  /\ Compatible(rows1[1], rows2[1])

\* The bytes consumed before the i-th chunk was read: the lengths of the
\* chunks read before it.
RECURSIVE ConsumedBefore(_)
ConsumedBefore(i) == IF i <= 1 THEN 0 ELSE ConsumedBefore(i - 1) + reads[i - 1][2]

\* C27: the i-th chunk read spans the bytes from size - min(size, consumed +
\* buf_size) to size - consumed, where consumed is the number of bytes read
\* before it; it holds at least one byte and at most buf_size bytes and
\* starts at or after offset 0, so that the chunks are adjacent, go toward
\* the start of the file and hold no byte twice; remaining_size is the size
\* less the bytes consumed; and a file pulled to its end without error has
\* been consumed whole, by chunks that partition it.
C27_Thm ==
  /\ \A i \in 1..Len(reads) :
       LET consumed == ConsumedBefore(i)
       IN /\ reads[i][1] = Len(file) - Min(Len(file), consumed + buf_size)
          /\ reads[i][1] + reads[i][2] = Len(file) - consumed
          /\ reads[i][2] >= 1 /\ reads[i][2] <= buf_size
          /\ reads[i][1] >= 0
  /\ \A i \in 1..(Len(reads) - 1) : reads[i + 1][1] + reads[i + 1][2] = reads[i][1]
  /\ Len(reads) >= 1 => remaining_size = Len(file) - ConsumedBefore(Len(reads) + 1)
  /\ (PulledToEnd /\ error = "none" /\ Len(reads) >= 1)
       => /\ ConsumedBefore(Len(reads) + 1) = Len(file)
          /\ reads[Len(reads)][1] = 0
  /\ pc = "yield_final" => ConsumedBefore(Len(reads) + 1) = Len(file)

\* A file whose size is no multiple of buf_size was read to its end in
\* three chunks, the last one shorter than the others.
C27_Witness ==
  /\ PulledToEnd /\ error = "none"
  /\ buf_size >= 2
  /\ Len(reads) = 3
  /\ reads[1][2] = buf_size /\ reads[2][2] = buf_size
  /\ reads[3][2] < buf_size

\* The items that the generator yields, pulled to its end, for a file of
\* the given content with the buf_size and the encoding of this run.
ItemsFor(content) == RunAlone(Created(content, buf_size, encoding)).emitted

\* C28: for a file pulled to its end with a valid buf_size, (1) a file that
\* is one '\n' gives the one item "\n"; (2) a file that is not empty and
\* does not end with '\n' gives the items of the same file with one '\n'
\* appended; (3) when no line fails to decode, under latin-1, where an item
\* has one character per byte, the items hold together as many characters
\* as the file has bytes once its one final '\n' is dropped, plus the '\n'
\* of the last line: no other byte of the file is dropped, also when a chunk
\* other than the first ends with '\n'.
C28_Thm ==
  (PulledToEnd /\ Readable /\ ValidBufSize) =>
    /\ file = <<NL>> => (emitted = <<<<NL>>>> /\ error = "none")
    /\ (file # <<>> /\ ~EndsWithNL(file)) => emitted = ItemsFor(file \o <<NL>>)
    /\ (file # <<>> /\ error = "none" /\ CodecOf(encoding) = "latin_1")
         => /\ SumLen(emitted) = Len(DropTrailingNL(file)) + 1
            /\ Len(file) - Len(DropTrailingNL(file)) <= 1

\* A file that does not end with '\n' was read to its end, and a chunk
\* other than the first ended with '\n'.
C28_Witness ==
  /\ PulledToEnd /\ Readable /\ ValidBufSize /\ error = "none"
  /\ file # <<>> /\ ~EndsWithNL(file)
  /\ \E i \in 2..Len(reads) : file[reads[i][1] + reads[i][2]] = NL
  /\ Len(emitted) >= 2

\* The file that is one '\n' was read to its end.
C28_WitnessSingle ==
  /\ PulledToEnd /\ Readable /\ ValidBufSize
  /\ file = <<NL>> /\ emitted = <<<<NL>>>>

\* The bytes of b from offset start (counted from 0) up to, not including,
\* the first '\n' at or after that offset, or up to the end of b.
UpToDelimiter(b, start) ==
  LET stops == {k \in (start + 1)..Len(b) : b[k] = NL}
      stop  == IF stops = {} THEN Len(b) + 1
               ELSE CHOOSE k \in stops : \A m \in stops : k <= m
  IN SubSeq(b, start + 1, stop - 1)

\* C29: after each chunk is processed (line 69) one segment is carried; it
\* is the bytes of the file, without its one final '\n', from the offset at
\* which the chunks read so far start up to the first '\n' at or after that
\* offset, or up to the end when there is none. It holds no '\n'. When the
\* reads are finished it is the first logical line of the file, and a run
\* pulled to its end without error yields it last.
C29_Thm ==
  /\ Len(assembled) = Len(reads)
  /\ \A i \in 1..Len(assembled) :
       /\ assembled[i].segment = UpToDelimiter(DropTrailingNL(file), reads[i][1])
       /\ \A k \in 1..Len(assembled[i].segment) : assembled[i].segment[k] # NL
  /\ (pc \in {"yield_loop", "yield_final"} /\ Len(assembled) >= 1)
       => (hasSegment /\ segment = assembled[Len(assembled)].segment)
  /\ (Len(reads) >= 1 /\ reads[Len(reads)][1] = 0)
       => assembled[Len(assembled)].segment = LogicalLines[1]
  /\ pc = "yield_final" => (hasSegment /\ segment = LogicalLines[1])
  /\ (PulledToEnd /\ error = "none" /\ file # <<>>)
       => /\ emitted # <<>>
          /\ emitted[Len(emitted)] =
               Decode(LogicalLines[1], encoding).text \o <<NL>>

\* Three chunks were read of a file of two lines; the segment carried after
\* the second chunk began in the middle of a line and ran into the bytes of
\* the first chunk, and the run ended by yielding the first line.
C29_Witness ==
  /\ PulledToEnd /\ error = "none" /\ Len(reads) = 3
  /\ Len(LogicalLines) = 2
  /\ Len(assembled[2].segment) > reads[2][2]
  /\ assembled[2].segment # assembled[3].segment
  /\ assembled[3].segment = LogicalLines[1]

\* The length of the longest logical line of the file.
LongestLine ==
  LET lens == {Len(LogicalLines[j]) : j \in 1..Len(LogicalLines)}
  IN CHOOSE n \in lens : \A k \in lens : k <= n

\* The segment that was pending when chunk i was read.
PendingAt(i) == IF i = 1 THEN <<>> ELSE assembled[i - 1].segment

\* C30: at every chunk the bytes the generator holds are at most buf_size
\* plus the length of the longest logical line of the file: the chunk read
\* at line 55 together with the pending segment, the lines (the segment
\* among them) after line 69, and the segment alone, which is no longer
\* than the longest line. The bound holds for every file, whatever its size
\* and the number of its lines.
C30_Thm ==
  /\ \A i \in 1..Len(assembled) :
       /\ reads[i][2] + Len(PendingAt(i)) <= buf_size + LongestLine
       /\ assembled[i].held <= reads[i][2] + Len(PendingAt(i))
       /\ assembled[i].held <= buf_size + LongestLine
       /\ Len(assembled[i].segment) <= LongestLine
  /\ hasSegment => Len(segment) <= LongestLine

\* A file of three lines or more, longer than buf_size plus its longest
\* line, was read to its end, and after one chunk the generator held more
\* bytes than buf_size: the pending segment and the chunk together.
C30_Witness ==
  /\ PulledToEnd /\ error = "none"
  /\ Len(LogicalLines) >= 3
  /\ Len(file) > buf_size + LongestLine
  /\ \E i \in 1..Len(assembled) : assembled[i].held > buf_size

\* The getters of the class read only what their properties declare: p,
\* whose getter reads a and b, is declared with a and b, and q, whose
\* getter reads p, is declared with p.
ReadsOnlyDeclared ==
  /\ cls.deps["p"] = {"a", "b"}
  /\ "q" \in cls.props => "p" \in cls.deps["q"]

\* What the getter of x returns on the current attributes of o, nothing
\* cached.
FromAttributes(o, x) ==
  FuncGet(cls, [Obj(o) EXCEPT !.cache = [y \in Props |-> Absent]], x)

\* The cached value of x on o, when there is one, is what the getter
\* returns on the current attributes of o.
Coherent(o, x) ==
  cache[o][x] # Absent =>
    (FromAttributes(o, x).ok /\ cache[o][x] = FromAttributes(o, x).val)

\* C31: when the getters read only their declared dependencies, every
\* cached value present on an object equals what the getter would return on
\* the object's current attributes, also for a property declared with a
\* computed property as its dependency.
C31_Claim ==
  ReadsOnlyDeclared => \A o \in made : \A x \in cls.props : Coherent(o, x)

\* What the code does keep: a property whose declared dependencies are the
\* plain attributes that decide its value (p declared with a and b, q
\* declared with p, a and b) has a coherent cache on every object, and an
\* operation on one object leaves the cache of the other as it was.
C31_PlainDependencies ==
  /\ cls.deps["p"] = {"a", "b"} => \A o \in made : Coherent(o, "p")
  /\ (cls.deps["p"] = {"a", "b"} /\ "q" \in cls.props
        /\ cls.deps["q"] = {"p", "a", "b"})
       => \A o \in made : Coherent(o, "q")

\* q, declared with p alone, holds a cached value that the attributes no
\* longer give, although the cache of p was dropped and computed again.
C31_Stale ==
  /\ ReadsOnlyDeclared /\ "q" \in cls.props /\ cls.deps["q"] = {"p"}
  /\ cache["o1"]["p"] = attrs["o1"]["a"] + attrs["o1"]["b"]
  /\ cache["o1"]["q"] # Absent
  /\ cache["o1"]["q"] # cache["o1"]["p"] + 1

\* The positions of the rows returned with status MISSING.
MissingIn(out) == {k \in 1..Len(out) : StatusOf(out[k]) = "MISSING"}

\* C32: when reconcile has returned, no row returned MISSING in the first
\* list and row returned MISSING in the second list have the same
\* department, amount and name and dates at most one day apart.  While the
\* loop runs, a transaction of the first list that was left without match
\* has no compatible candidate without status.
C32_Thm ==
  /\ rpc = "returned" =>
       \A k \in MissingIn(out1) : \A j \in MissingIn(out2) :
          ~Compatible(rows1[k], rows2[j])
  /\ rpc \in {"joining", "returned"} =>
       \A k \in 1..Len(transactions1) : \A j \in 1..Len(transactions2) :
          (transactions1[k].status = "MISSING" /\ transactions2[j].status = "MISSING")
            => ~Compatible(rows1[k], rows2[j])
  /\ \A k \in 1..Len(partner) :
       partner[k] = 0 => Unmatched(transactions1[k], transactions2) = {}

\* reconcile has returned with a row MISSING in each list; the row MISSING
\* in the first list is compatible with a row of the second list, a day
\* from it, which was taken by the other row of the first list.
C32_Witness ==
  /\ rpc = "returned"
  /\ Len(rows1) = 2 /\ Len(rows2) = 2
  /\ MissingIn(out1) = {2} /\ MissingIn(out2) # {}
  /\ partner[1] # 0
  /\ Compatible(rows1[2], rows2[partner[1]])
  /\ DaysApart(rows1[2], rows2[partner[1]]) = 1

====
